---- MODULE Spec2Model ----
(***************************************************************************)
(* Chain / Session lifecycle of the employee-wellness counselling backend. *)
(*                                                                         *)
(* The persisted documents (chats, sessions, chains, meets, notifications, *)
(* the manager assignment of the employees) are the state.  Every route    *)
(* handler and model method is one action, translated from its code.  The  *)
(* specification Spec runs the handlers one at a time; SpecRace splits the  *)
(* handlers that read a document, suspend at an await and write later into *)
(* a load step and a commit step that works on the loaded copies.          *)
(*                                                                         *)
(* Identifiers: the code draws uuid4().hex[:6]; the model numbers the      *)
(* chains 1, 2, ... and never uses a chain id twice, and gives every other *)
(* document the smallest number that names no document of its collection.  *)
(* 0 is None.                                                              *)
(* Messages: the handlers read only the sender and the timestamp of the    *)
(* last message and the number of messages not sent by the bot; a chat      *)
(* keeps those and whether its list holds two employee messages in a row.   *)
(***************************************************************************)
EXTENDS Integers, Sequences, FiniteSets, TLC

VARIABLES chats, sessions, chains, meets, notifications, manager,
          nextChain, inflight, resp, clock, outbox, job, proposal, deletes

vars == <<chats, sessions, chains, meets, notifications, manager,
          nextChain, inflight, resp, clock, outbox, job, proposal, deletes>>

store == <<chats, sessions, chains, meets, notifications>>

----------------------------------------------------------------------------
\* Bounds of the model.
MaxChats == 2
MaxSessions == 2
MaxChains == 2
MaxMeets == 2
MaxNotifications == 2
\* A conversation is followed for its first MaxMessages employee messages
\* and again from the last message before the end-session threshold.
MaxMessages == 2

\* The people of the model.  UnknownEmployee is an id no Employee has.
Employees == {"e1", "e2"}
HRs == {"h1", "h2"}
Admin == "admin"
Actors == HRs \cup {Admin}
UnknownEmployee == "e0"
NoManager == "none"
None == 0

\* models/session.py SessionStatus, models/chain.py ChainStatus, models/chat.py SenderType
SessionStatus == {"pending", "active", "completed", "cancelled"}
ChainStatus == {"active", "completed", "escalated", "cancelled"}
SenderType == {"bot", "emp", "hr"}
NoMessage == "nomsg"
\* escalation_reason of a chain that was not escalated (None).
NoReason == "noreason"

\* routes/llm_chat.py end_session: employee_messages_length < 10
MinEmployeeMessages == 10

\* Time is counted in hours; a day of the model has HoursPerDay hours.
HoursPerDay == 2
Hour == 1
Day == HoursPerDay * Hour
\* The clock at the start, the scheduled_at that the requests ask for, and
\* the hour after which the clock is not followed (one hour past the 2-day
\* deadline of a session scheduled at ScheduledAt).
ClockStart == 1
ScheduledAt == 2
MaxClock == 7
\* The hour after which the selection job is not followed.
MaxClockSelection == 60

\* models/meet.py MeetStatus
MeetStatus == {"SCHEDULED", "IN_PROGRESS", "COMPLETED", "CANCELLED", "NO_SHOW"}
MinutesPerHour == 60
\* Chain.escalate_chain: duration_minutes=30
EscalationMeetingMinutes == 30
\* The hour of the model's day that stands for 10:00.
TenAM == 0
\* (now + timedelta(days=1)).replace(hour=10, minute=0, second=0,
\* microsecond=0): the day after `now`, at 10:00.
MeetingTime(now) == ((now + Day) \div Day) * Day + TenAM

----------------------------------------------------------------------------
\* Document store helpers: a collection is a function from id to document.
Put(f, k, v) == [x \in (DOMAIN f) \cup {k} |-> IF x = k THEN v ELSE f[x]]
Del(f, k) == [x \in (DOMAIN f) \ {k} |-> f[x]]
Empty == [x \in {} |-> 0]

Min(S) == CHOOSE x \in S : \A y \in S : x <= y

RECURSIVE SortedSeq(_)
SortedSeq(S) == IF S = {} THEN <<>> ELSE <<Min(S)>> \o SortedSeq(S \ {Min(S)})

SeqToSet(s) == {s[i] : i \in 1..Len(s)}


\* A fresh identifier for collection f.
FreshId(f) == Min({i \in 1..(Cardinality(DOMAIN f) + 1) : i \notin DOMAIN f})

\* The documents as one record, so that a handler body can be applied to the
\* persisted state or, in SpecRace, after other handlers ran.
World == [chats |-> chats, sessions |-> sessions, chains |-> chains,
          meets |-> meets, notifications |-> notifications,
          nextChain |-> nextChain]

\* resp is the HTTP status of the last response (0: none yet); deletes is
\* the sequence of compensating deletes that the last request issued.
\* The handler returns: its writes become the persisted state.
ReturnAfter(w, r, d) ==
    /\ chats' = w.chats
    /\ sessions' = w.sessions
    /\ chains' = w.chains
    /\ meets' = w.meets
    /\ notifications' = w.notifications
    /\ nextChain' = w.nextChain
    /\ resp' = r
    /\ deletes' = d

Return(w, r) == ReturnAfter(w, r, <<>>)

\* The handler raises before it wrote anything.
Reject(r) == resp' = r /\ deletes' = <<>> /\ UNCHANGED <<store, nextChain>>

----------------------------------------------------------------------------
\* Document constructors (the field defaults of the models).
\* last_at: the timestamp of the last message (None: no message).
\* double: two consecutive messages of the list are the employee's.
NewChat(user) ==
    [user_id |-> user, last |-> NoMessage, nonbot |-> 0, last_at |-> None,
     double |-> FALSE]
\* created_at: the default of the field, the time of construction.
NewSession(user, chat, at) ==
    [user_id |-> user, chat_id |-> chat, status |-> "pending", scheduled_at |-> at,
     created_at |-> clock]
\* A chain built without its first session.
NewChainNoSessions(emp, sids) ==
    [employee_id |-> emp, session_ids |-> <<>>, status |-> "active",
     meet_id |-> None, escalation_reason |-> NoReason, context |-> ""]

NewChain(emp, sids) ==
    [employee_id |-> emp, session_ids |-> sids, status |-> "active",
     meet_id |-> None, escalation_reason |-> NoReason, context |-> ""]
\* A meeting with its two participants exchanged.
NewMeetSwapped(hr, emp, notes, at) ==
    [user_id |-> emp, with_user_id |-> hr, notes |-> notes, scheduled_at |-> at,
     duration_minutes |-> EscalationMeetingMinutes, status |-> "SCHEDULED"]

\* The Meet that Chain.escalate_chain builds; status is the field default.
NewMeet(hr, emp, notes, at) ==
    [user_id |-> hr, with_user_id |-> emp, notes |-> notes, scheduled_at |-> at,
     duration_minutes |-> EscalationMeetingMinutes, status |-> "SCHEDULED"]
\* created_at is stamped by its default factory when the document is built.
NewNotification(emp) == [employee_id |-> emp, created_at |-> clock]

\* Chat.add_message: append to the in-memory chat and save it; the message
\* is stamped with datetime.now.
AddMessage(chat, sender) ==
    [chat EXCEPT !.last = sender,
                 !.last_at = clock,
                 !.double = @ \/ (chat.last = "emp" /\ sender = "emp"),
                 !.nonbot = IF sender = "bot" \/ @ >= MinEmployeeMessages
                            THEN @ ELSE @ + 1]

\* Chain.find_one({"session_ids": sid}): the first chain that lists the session.
ChainsOfSession(chs, sid) ==
    {c \in DOMAIN chs : sid \in SeqToSet(chs[c].session_ids)}
ChainOfSession(chs, sid) ==
    IF ChainsOfSession(chs, sid) = {} THEN None ELSE Min(ChainsOfSession(chs, sid))

\* Session.find_one({"chat_id": chat_id})
SessionsOfChat(sess, chat) == {s \in DOMAIN sess : sess[s].chat_id = chat}
SessionOfChat(sess, chat) ==
    IF SessionsOfChat(sess, chat) = {} THEN None ELSE Min(SessionsOfChat(sess, chat))

\* Chain.find_one({"employee_id": e, "status": ACTIVE})
ActiveChainsOf(chs, e) ==
    {c \in DOMAIN chs : chs[c].employee_id = e /\ chs[c].status = "active"}

\* Chain.get_by_id: find_one({"chain_id": cid}), None when there is none.
GetChainById(chs, cid) == IF cid \in DOMAIN chs THEN chs[cid] ELSE None

\* Session.find({"session_id": {"$in": self.session_ids}}).to_list(), in
\* insertion order.
FoundSessions(self, sess) ==
    SortedSeq({s \in DOMAIN sess : s \in SeqToSet(self.session_ids)})

----------------------------------------------------------------------------
\* models/session.py
\* Session.complete_session over a list: stops at the first session that is
\* not ACTIVE (ValueError); the sessions before it are already saved.
RECURSIVE CompleteSessions(_, _)
CompleteSessions(ids, sess) ==
    IF ids = <<>> THEN [ok |-> TRUE, sessions |-> sess]
    ELSE IF sess[Head(ids)].status # "active"
         THEN [ok |-> FALSE, sessions |-> sess]
         ELSE CompleteSessions(Tail(ids),
                  [sess EXCEPT ![Head(ids)].status = "completed"])

\* A loop that stops after the first session.
ForceCompleteFirst(ids, sess) ==
    IF ids = <<>> THEN sess ELSE [sess EXCEPT ![Head(ids)].status = "completed"]

\* The loop of escalate_chain: session.status = COMPLETED; session.save().
RECURSIVE ForceCompleteSessions(_, _)
ForceCompleteSessions(ids, sess) ==
    IF ids = <<>> THEN sess
    ELSE ForceCompleteSessions(Tail(ids),
             [sess EXCEPT ![Head(ids)].status = "completed"])

\* models/chain.py Chain.complete_chain, on the in-memory chain `self`.
CompleteChain(w, cid, self) ==
    IF self.status # "active"
    THEN [ok |-> FALSE, w |-> w, self |-> self]
    ELSE LET done == [self EXCEPT !.status = "completed"]
             r == CompleteSessions(FoundSessions(self, w.sessions), w.sessions)
             w1 == [w EXCEPT !.sessions = r.sessions]
         IN  IF r.ok
             THEN [ok |-> TRUE, self |-> done,
                   w |-> [w1 EXCEPT !.chains = Put(w.chains, cid, done)]]
             ELSE [ok |-> FALSE, self |-> done, w |-> w1]

\* models/chain.py Chain.escalate_chain(reason), on the in-memory chain `self`.
\* mail = FALSE: send_escalation_mail raises.
EscalateChain(w, cid, self, reason, mail) ==
    IF self.status # "active"
    THEN [ok |-> FALSE, w |-> w, self |-> self]
    ELSE LET emp == self.employee_id
             w1 == [w EXCEPT !.sessions =
                       ForceCompleteSessions(FoundSessions(self, w.sessions), w.sessions)]
             first == [self EXCEPT !.status = "completed"]
         IN  IF emp \notin Employees \/ manager[emp] = NoManager
             THEN [ok |-> FALSE, self |-> first, w |-> w1]
             ELSE LET mid == FreshId(w.meets)
                      w2 == [w1 EXCEPT
                                !.meets = Put(w.meets, mid, NewMeet(manager[emp], emp, reason,
                                                              MeetingTime(clock)))]
                      esc == [self EXCEPT !.status = "escalated",
                                          !.escalation_reason = reason,
                                          !.meet_id = mid]
                  IN  IF ~mail
                      THEN [ok |-> FALSE, self |-> esc, w |-> w2]
                      ELSE [ok |-> TRUE, self |-> esc,
                            w |-> [w2 EXCEPT !.chains = Put(w.chains, cid, esc)]]

\* models/chain.py Chain.update_context and Chain.add_session
UpdateContext(w, cid, self, ctx) ==
    LET c == [self EXCEPT !.context = ctx]
    IN  [self |-> c, w |-> [w EXCEPT !.chains = Put(w.chains, cid, c)]]

\* An add_session that puts the new session first.
AddSessionFirst(w, cid, self, sid) ==
    LET c == [self EXCEPT !.session_ids = <<sid>> \o @]
    IN  [self |-> c, w |-> [w EXCEPT !.chains = Put(w.chains, cid, c)]]

AddSession(w, cid, self, sid) ==
    LET c == [self EXCEPT !.session_ids = Append(@, sid)]
    IN  [self |-> c, w |-> [w EXCEPT !.chains = Put(w.chains, cid, c)]]

----------------------------------------------------------------------------
\* create_chain: utils/chain_creation.py and the HR route of routes/admin.py.
\* The steps of the saga in order; `failing` is the step that raises
\* (7: none does).  A step that raises has saved nothing.
StepChat == 1
StepSession == 2
StepChain == 3
StepNotification == 4
StepReport == 5
StepEmail == 6
StepNone == 7

\* The try block up to the step that raises: Chat, Session(pending),
\* Chain(active, [session]), Notification, each saved in turn.
SagaCreate(w, emp, failing) ==
    LET chat == FreshId(w.chats)
        sid == FreshId(w.sessions)
        cid == w.nextChain
        nid == FreshId(w.notifications)
    IN  [w EXCEPT
           !.nextChain = IF failing > StepChain THEN @ + 1 ELSE @,
           !.chats = IF failing > StepChat THEN Put(@, chat, NewChat(emp)) ELSE @,
           !.sessions = IF failing > StepSession
                        THEN Put(@, sid, NewSession(emp, chat, ScheduledAt)) ELSE @,
           !.chains = IF failing > StepChain
                      THEN Put(@, cid, NewChain(emp, <<sid>>)) ELSE @,
           !.notifications = IF failing > StepNotification
                             THEN Put(@, nid, NewNotification(emp)) ELSE @]

\* An except block that leaves the notification behind.
SagaRollbackKeepsNotification(w, w0) ==
    [w EXCEPT !.chains = Del(@, w0.nextChain),
              !.sessions = Del(@, FreshId(w0.sessions)),
              !.chats = Del(@, FreshId(w0.chats))]

\* The except block: chain.delete(), session.delete(), chat.delete(),
\* notification.delete() for every document the call built.  `w0` is the
\* state before the call, which fixes the ids the call used.
SagaRollback(w, w0) ==
    [w EXCEPT !.chains = Del(@, w0.nextChain),
              !.sessions = Del(@, FreshId(w0.sessions)),
              !.chats = Del(@, FreshId(w0.chats)),
              !.notifications = Del(@, FreshId(w0.notifications))]

\* The step of the saga that saves the document.
SagaStepOf(doc) ==
    CASE doc = "chat" -> StepChat
      [] doc = "session" -> StepSession
      [] doc = "chain" -> StepChain
      [] doc = "notification" -> StepNotification

\* The documents that are saved when step `failing` raises.
SagaCreated(failing) == {d \in {"chat", "session", "chain", "notification"} :
                            SagaStepOf(d) < failing}

\* The delete() calls of the except block, in the order it issues them: one
\* for every variable that holds a document, the one whose save raised
\* included.
SagaDeletes(failing) ==
    IF failing = StepNone THEN <<>>
    ELSE SelectSeq(<<"chain", "session", "chat", "notification">>,
                   LAMBDA d : SagaStepOf(d) <= failing)

\* The whole saga after the checks passed: 200 with the chain, or the
\* rollback and 500.
CreateChainSaga(w, emp, failing) ==
    IF failing = StepNone
    THEN [code |-> 200, w |-> SagaCreate(w, emp, failing), deletes |-> <<>>]
    ELSE [code |-> 500, w |-> SagaRollback(SagaCreate(w, emp, failing), w),
          deletes |-> SagaDeletes(failing)]

\* The checks at the head of the try block.  Every HTTPException raised
\* inside the try block is caught by `except Exception` and answered as 500.
\* 0: the checks pass.
CreateChainCheck(chs, emp) ==
    IF emp \notin Employees THEN 500            \* 404 raised, caught, 500
    ELSE IF ActiveChainsOf(chs, emp) # {} THEN 500   \* 400 raised, caught, 500
    ELSE 0

NotAssigned(actor, emp) == actor \in HRs /\ manager[emp] # actor

CreateChainRouteCheck(chs, actor, emp) ==
    IF emp \notin Employees THEN 500
    ELSE IF NotAssigned(actor, emp) THEN 500    \* 403 raised, caught, 500
    ELSE IF ActiveChainsOf(chs, emp) # {} THEN 500
    ELSE 0

HasRoom ==
    /\ Cardinality(DOMAIN chats) < MaxChats
    /\ Cardinality(DOMAIN sessions) < MaxSessions
    /\ nextChain <= MaxChains
    /\ Cardinality(DOMAIN notifications) < MaxNotifications

\* utils/chain_creation.py create_chain
create_chain(emp, failing) ==
    /\ UNCHANGED <<manager, inflight, clock, outbox, job, proposal>>
    /\ IF CreateChainCheck(chains, emp) # 0
       THEN Reject(CreateChainCheck(chains, emp))
       ELSE /\ HasRoom
            /\ LET r == CreateChainSaga(World, emp, failing)
               IN  ReturnAfter(r.w, r.code, r.deletes)

\* routes/admin.py POST /chains/create (no email step)
create_chain_route(actor, emp, failing) ==
    /\ UNCHANGED <<manager, inflight, clock, outbox, job, proposal>>
    /\ failing # StepEmail
    /\ IF CreateChainRouteCheck(chains, actor, emp) # 0
       THEN Reject(CreateChainRouteCheck(chains, actor, emp))
       ELSE /\ HasRoom
            /\ LET r == CreateChainSaga(World, emp, failing)
               IN  ReturnAfter(r.w, r.code, r.deletes)

----------------------------------------------------------------------------
\* routes/admin.py chain routes.  Each body is inside try/except Exception,
\* so every failure is answered as 500.
complete_chain_route(actor, cid) ==
    /\ UNCHANGED <<manager, inflight, clock, outbox, job, proposal>>
    /\ IF \/ cid \notin DOMAIN chains
          \/ NotAssigned(actor, chains[cid].employee_id)
          \/ chains[cid].status # "active"
       THEN Reject(500)
       ELSE LET r == CompleteChain(World, cid, chains[cid])
            IN  Return(r.w, IF r.ok THEN 200 ELSE 500)

\* chain.escalate_chain() is called without its `reason` argument: TypeError.
escalate_chain_route(actor, cid) ==
    /\ UNCHANGED <<manager, inflight, clock, outbox, job, proposal>>
    /\ Reject(500)

\* Chain has no cancel_chain method: AttributeError.
cancel_chain_route(actor, cid) ==
    /\ UNCHANGED <<manager, inflight, clock, outbox, job, proposal>>
    /\ Reject(500)

\* routes/llm_chat.py POST /escalate-chain: 404, 400, or the TypeError of
\* chain.escalate_chain() without `reason`.
llm_escalate_chain(cid) ==
    /\ UNCHANGED <<manager, inflight, clock, outbox, job, proposal>>
    /\ Reject(IF cid \notin DOMAIN chains THEN 404
              ELSE IF chains[cid].status # "active" THEN 400
              ELSE 500)

----------------------------------------------------------------------------
\* Session status routes: routes/admin.py (complete, activate) and
\* routes/admin_hr.py (complete, activate, pending).  `sid` is the key the
\* route hands to Session.get.
SessionRouteCheck(actor, sid) ==
    IF sid \notin DOMAIN sessions THEN 404
    ELSE IF NotAssigned(actor, sessions[sid].user_id) THEN 403
    ELSE 0

SetSessionStatus(sid, status) ==
    /\ sessions' = [sessions EXCEPT ![sid].status = status]
    /\ resp' = 200
    /\ deletes' = <<>>
    /\ UNCHANGED <<chats, chains, meets, notifications, nextChain>>

CompleteSessionRoute(actor, sid) ==
    /\ UNCHANGED <<manager, inflight, clock, outbox, job, proposal>>
    /\ IF SessionRouteCheck(actor, sid) # 0
       THEN Reject(SessionRouteCheck(actor, sid))
       ELSE IF sessions[sid].status # "active"
            THEN Reject(400)
            ELSE SetSessionStatus(sid, "completed")

ActivateSessionRoute(actor, sid) ==
    /\ UNCHANGED <<manager, inflight, clock, outbox, job, proposal>>
    /\ IF SessionRouteCheck(actor, sid) # 0
       THEN Reject(SessionRouteCheck(actor, sid))
       ELSE IF sessions[sid].status \in {"active", "completed"}
            THEN Reject(400)
            ELSE SetSessionStatus(sid, "active")

admin_complete_session(actor, sid) == CompleteSessionRoute(actor, sid)
admin_activate_session(actor, sid) == ActivateSessionRoute(actor, sid)
complete_session_route(actor, sid) == CompleteSessionRoute(actor, sid)
activate_session_route(actor, sid) == ActivateSessionRoute(actor, sid)

mark_session_pending(actor, sid) ==
    /\ UNCHANGED <<manager, inflight, clock, outbox, job, proposal>>
    /\ IF SessionRouteCheck(actor, sid) # 0
       THEN Reject(SessionRouteCheck(actor, sid))
       ELSE IF sessions[sid].status \in {"pending", "completed"}
            THEN Reject(400)
            ELSE SetSessionStatus(sid, "pending")

----------------------------------------------------------------------------
\* Session creation outside a chain.
\* routes/admin.py POST /session/{user_id}
create_session(actor, emp) ==
    /\ UNCHANGED <<manager, inflight, clock, outbox, job, proposal>>
    /\ IF emp \notin Employees
       THEN Reject(404)
       ELSE IF NotAssigned(actor, emp)
       THEN Reject(403)
       ELSE IF \E s \in DOMAIN sessions :
                  /\ sessions[s].user_id = emp
                  /\ sessions[s].status \in {"active", "pending"}
       THEN Reject(400)
       ELSE /\ Cardinality(DOMAIN chats) < MaxChats
            /\ Cardinality(DOMAIN sessions) < MaxSessions
            /\ chats' = Put(chats, FreshId(chats), NewChat(emp))
            /\ sessions' = Put(sessions, FreshId(sessions),
                               NewSession(emp, FreshId(chats), ScheduledAt))
            /\ resp' = 200
            /\ deletes' = <<>>
            /\ UNCHANGED <<chains, meets, notifications, nextChain>>

\* routes/hr.py POST /session/{user_id}: HR only, no check for an open session.
create_session_hr(actor, emp) ==
    /\ UNCHANGED <<manager, inflight, clock, outbox, job, proposal>>
    /\ IF actor \notin HRs
       THEN Reject(403)
       ELSE IF emp \notin Employees
       THEN Reject(404)
       ELSE IF manager[emp] # actor
       THEN Reject(403)
       ELSE /\ Cardinality(DOMAIN chats) < MaxChats
            /\ Cardinality(DOMAIN sessions) < MaxSessions
            /\ chats' = Put(chats, FreshId(chats), NewChat(emp))
            /\ sessions' = Put(sessions, FreshId(sessions),
                               NewSession(emp, FreshId(chats), ScheduledAt))
            /\ resp' = 200
            /\ deletes' = <<>>
            /\ UNCHANGED <<chains, meets, notifications, nextChain>>

\* routes/llm_chat.py POST /create-session.  With an ACTIVE chain the chat is
\* saved and Session(employee_id=..., chat_id=..., status=...) then fails
\* validation (user_id and scheduled_at are required): the chain is not touched.
llm_create_session(emp, cid) ==
    /\ UNCHANGED <<manager, inflight, clock, outbox, job, proposal>>
    /\ IF cid = None
       THEN Reject(200)
       ELSE IF cid \notin DOMAIN chains
       THEN Reject(404)
       ELSE IF chains[cid].status # "active"
       THEN Reject(400)
       ELSE /\ Cardinality(DOMAIN chats) < MaxChats
            /\ chats' = Put(chats, FreshId(chats), NewChat(emp))
            /\ resp' = 500
            /\ deletes' = <<>>
            /\ UNCHANGED <<sessions, chains, meets, notifications, nextChain>>

\* routes/admin.py PATCH /reassign-hr/{userId}
reassign_hr(emp, hr) ==
    /\ emp \in Employees /\ hr \in HRs
    /\ manager' = [manager EXCEPT ![emp] = hr]
    /\ resp' = 200
    /\ deletes' = <<>>
    /\ UNCHANGED <<store, nextChain, inflight, clock, outbox, job, proposal>>

----------------------------------------------------------------------------
\* routes/chat.py.  verify_hr / verify_employee (utils/) return the Employee
\* document, which both handlers subscript (admin_hr["employee_id"],
\* employee["employee_id"]): TypeError before any write.
message_to_employee(chat) ==
    /\ UNCHANGED <<manager, inflight, clock, outbox, job, proposal>>
    /\ Reject(500)

receive_message(chat) ==
    /\ UNCHANGED <<manager, inflight, clock, outbox, job, proposal>>
    /\ Reject(IF chat \notin DOMAIN chats THEN 404 ELSE 500)

----------------------------------------------------------------------------
\* routes/llm_chat.py.  A handler first loads chat, session and chain and
\* checks them (Check: the status code it raises, 0 when it goes on), then
\* works on the loaded copies (Commit).
Loaded(w, chat) ==
    LET sid == SessionOfChat(w.sessions, chat)
        cid == ChainOfSession(w.chains, sid)
    IN  [chat_id |-> chat, chat |-> w.chats[chat],
         sid |-> sid, session |-> w.sessions[sid],
         cid |-> cid, chain |-> w.chains[cid]]

LLMReplies == {"fail", "plain", "complete", "escalate", "both"}
Contexts == {"ctx1"}
ChatbotReason == "chatbot"

\* The checks of POST /message without the one of the session status.
SendMessageCheckAnySession(w, emp, chat) ==
    IF chat \notin DOMAIN w.chats THEN 404
    ELSE IF w.chats[chat].user_id # emp THEN 403
    ELSE IF SessionOfChat(w.sessions, chat) = None THEN 404
    ELSE IF ChainOfSession(w.chains, SessionOfChat(w.sessions, chat)) = None THEN 404
    ELSE IF w.chains[ChainOfSession(w.chains, SessionOfChat(w.sessions, chat))].status
                # "active" THEN 400
    ELSE IF w.chats[chat].last = NoMessage THEN 500
    ELSE IF w.chats[chat].last = "emp" THEN 400
    ELSE 0

\* POST /message
SendMessageCheck(w, emp, chat) ==
    IF chat \notin DOMAIN w.chats THEN 404
    ELSE IF w.chats[chat].user_id # emp THEN 403
    ELSE IF SessionOfChat(w.sessions, chat) = None THEN 404
    ELSE IF w.sessions[SessionOfChat(w.sessions, chat)].status # "active" THEN 400
    ELSE IF ChainOfSession(w.chains, SessionOfChat(w.sessions, chat)) = None THEN 404
    ELSE IF w.chains[ChainOfSession(w.chains, SessionOfChat(w.sessions, chat))].status
                # "active" THEN 400
    ELSE IF w.chats[chat].last = NoMessage THEN 500    \* messages[-1]: IndexError
    ELSE IF w.chats[chat].last = "emp" THEN 400
    ELSE 0

\* A save that appends the message to the persisted list.
SendMessageReceivePush(w, L) ==
    LET c1 == AddMessage(w.chats[L.chat_id], "emp")
    IN  [L |-> [L EXCEPT !.chat = c1],
         w |-> [w EXCEPT !.chats = Put(@, L.chat_id, c1)]]

\* chat.add_message(EMPLOYEE, ...): the loaded chat with the employee's
\* message is saved (save() writes the whole document).
SendMessageReceive(w, L) ==
    LET c1 == AddMessage(L.chat, "emp")
    IN  [L |-> [L EXCEPT !.chat = c1],
         w |-> [w EXCEPT !.chats = Put(@, L.chat_id, c1)]]

\* The call of the chat backend and what follows it: the bot's message, then
\* chain.complete_chain() and chain.escalate_chain(reason) on the loaded chain
\* as the reply's flags ask.
SendMessageReply(w, L, llm, mail) ==
    LET w2 == [w EXCEPT !.chats = Put(@, L.chat_id, AddMessage(L.chat, "bot"))]
        done == IF llm \in {"complete", "both"}
                THEN CompleteChain(w2, L.cid, L.chain)
                ELSE [ok |-> TRUE, w |-> w2, self |-> L.chain]
        esc == IF llm \in {"escalate", "both"}
               THEN EscalateChain(done.w, L.cid, done.self, ChatbotReason, mail)
               ELSE done
    IN  IF llm = "fail" THEN [code |-> 500, w |-> w]
        ELSE IF ~done.ok THEN [code |-> 500, w |-> done.w]
        ELSE [code |-> IF esc.ok THEN 200 ELSE 500, w |-> esc.w]

SendMessageCommit(w, L, llm, mail) ==
    LET r == SendMessageReceive(w, L)
    IN  SendMessageReply(r.w, r.L, llm, mail)

InWindow(n) == n < MaxMessages \/ n >= MinEmployeeMessages - 1

\* `mail` is read only when the chain is escalated.
send_message(emp, chat, llm, mail) ==
    /\ UNCHANGED <<manager, inflight, clock, outbox, job, proposal>>
    /\ mail \/ llm \in {"escalate", "both"}
    /\ IF SendMessageCheck(World, emp, chat) # 0
       THEN Reject(SendMessageCheck(World, emp, chat))
       ELSE /\ InWindow(chats[chat].nonbot)
            /\ llm \in {"escalate", "both"} => Cardinality(DOMAIN meets) < MaxMeets
            /\ LET r == SendMessageCommit(World, Loaded(World, chat), llm, mail)
               IN  Return(r.w, r.code)

\* PATCH /initiate-chat at time `now`.
InitiateCheck(w, emp, chat, now) ==
    IF chat \notin DOMAIN w.chats THEN 404
    ELSE IF w.chats[chat].user_id # emp THEN 403
    ELSE IF SessionOfChat(w.sessions, chat) = None THEN 404
    ELSE IF w.sessions[SessionOfChat(w.sessions, chat)].status # "pending" THEN 400
    ELSE IF w.sessions[SessionOfChat(w.sessions, chat)].scheduled_at < now THEN 400
    ELSE IF ChainOfSession(w.chains, SessionOfChat(w.sessions, chat)) = None THEN 404
    ELSE 0

\* An initiate that saves the session as ACTIVE before it calls the backend.
InitiateCommitEarly(w, L, started) ==
    LET w1 == [w EXCEPT !.sessions = Put(@, L.sid, [L.session EXCEPT !.status = "active"])]
    IN  IF ~started THEN [code |-> 500, w |-> w1]
        ELSE [code |-> 200,
              w |-> [w1 EXCEPT !.chats = Put(@, L.chat_id, AddMessage(L.chat, "bot"))]]

\* started = FALSE: the report check, the report analysis or the call of
\* /chatbot/start_session raises.
InitiateCommit(w, L, started) ==
    IF ~started THEN [code |-> 500, w |-> w]
    ELSE [code |-> 200,
          w |-> [w EXCEPT
                   !.sessions = Put(@, L.sid, [L.session EXCEPT !.status = "active"]),
                   !.chats = Put(@, L.chat_id, AddMessage(L.chat, "bot"))]]

initiate_chat(emp, chat, started) ==
    /\ UNCHANGED <<manager, inflight, clock, outbox, job, proposal>>
    /\ IF InitiateCheck(World, emp, chat, clock) # 0
       THEN Reject(InitiateCheck(World, emp, chat, clock))
       ELSE LET r == InitiateCommit(World, Loaded(World, chat), started)
            IN  Return(r.w, r.code)

\* POST /end-session (routes/llm_chat.py); the whole body is in
\* try/except Exception: every failure is answered as 500.
EndSessionCheck(w, emp, chat) ==
    IF chat \notin DOMAIN w.chats THEN 500
    ELSE IF w.chats[chat].user_id # emp THEN 500
    ELSE IF SessionOfChat(w.sessions, chat) = None THEN 500
    ELSE IF ChainOfSession(w.chains, SessionOfChat(w.sessions, chat)) = None THEN 500
    ELSE IF w.chats[chat].nonbot < MinEmployeeMessages THEN 500
    ELSE 0

\* ctx = "": the LLM backend fails or returns no updated_context.
EndSessionCommit(w, L, emp, ctx) ==
    IF ctx = "" THEN [code |-> 500, w |-> w]
    ELSE LET u == UpdateContext(w, L.cid, L.chain, ctx)
         IN  IF L.session.status # "active"
             THEN [code |-> 500, w |-> u.w]
             ELSE LET chat == FreshId(w.chats)
                      sid == FreshId(w.sessions)
                      \* scheduled for the next day
                      w1 == [u.w EXCEPT
                               !.sessions = Put(Put(@, L.sid,
                                                    [L.session EXCEPT !.status = "completed"]),
                                                sid, NewSession(emp, chat, clock + Day)),
                               !.chats = Put(@, chat, NewChat(emp))]
                      a == AddSession(w1, L.cid, u.self, sid)
                  IN  [code |-> 200,
                       w |-> [a.w EXCEPT
                                !.notifications = Put(@, FreshId(w.notifications),
                                                      NewNotification(emp))]]

CanEndSession ==
    /\ Cardinality(DOMAIN chats) < MaxChats
    /\ Cardinality(DOMAIN sessions) < MaxSessions
    /\ Cardinality(DOMAIN notifications) < MaxNotifications

end_session(emp, chat, ctx) ==
    /\ UNCHANGED <<manager, inflight, clock, outbox, job, proposal>>
    /\ IF EndSessionCheck(World, emp, chat) # 0
       THEN Reject(EndSessionCheck(World, emp, chat))
       ELSE /\ CanEndSession
            /\ LET r == EndSessionCommit(World, Loaded(World, chat), emp, ctx)
               IN  Return(r.w, r.code)

\* POST /end-session of routes/employee.py: it counts the messages with
\* msg.sender, a field Message does not have (AttributeError), and an empty
\* chat has fewer than 10 messages: it never gets past the count.
employee_end_session(emp, chat, cid) ==
    /\ UNCHANGED <<manager, inflight, clock, outbox, job, proposal>>
    /\ Reject(500)

----------------------------------------------------------------------------
\* In-flight requests of SpecRace; Spec leaves every slot idle.
\* job: how the last run of the employee-selection job ended.
JobIdle == [nominated |-> <<>>, end |-> "idle"]
\* proposal: the last call of the slot-finding function (none yet).
NoProposal ==
    [by |-> "none", meetings |-> <<>>, now |-> 0, duration |-> 0,
     raised |-> FALSE, proposed |-> 0]

Slots == {1, 2}
Idle == [op |-> "idle"]

\* The empty store, or the store in the middle of the first conversation of
\* e1: create_chain, initiate_chat and MinEmployeeMessages - 1 exchanges.
InitEmpty ==
    /\ chats = Empty
    /\ sessions = Empty
    /\ chains = Empty
    /\ notifications = Empty
    /\ nextChain = 1

InitConversation ==
    /\ chats = Put(Empty, 1, [user_id |-> "e1", last |-> "bot",
                              nonbot |-> MinEmployeeMessages - 1,
                              last_at |-> ClockStart, double |-> FALSE])
    /\ sessions = Put(Empty, 1, [NewSession("e1", 1, ScheduledAt) EXCEPT
                                    !.status = "active"])
    /\ chains = Put(Empty, 1, NewChain("e1", <<1>>))
    /\ notifications = Put(Empty, 1, NewNotification("e1"))
    /\ nextChain = 2

\* Everything but the store and the slot-finding call.
InitRest ==
    /\ meets = Empty
    /\ manager = [e \in Employees |-> IF e = "e1" THEN "h1" ELSE NoManager]
    /\ inflight = [s \in Slots |-> Idle]
    /\ resp = 0
    /\ outbox = <<>>
    /\ job = JobIdle
    /\ deletes = <<>>

Init ==
    /\ clock = ClockStart
    /\ InitEmpty \/ InitConversation
    /\ InitRest
    /\ proposal = NoProposal

EmployeeIds == Employees \cup {UnknownEmployee}
ChatIds == 1..MaxChats
SessionIds == 1..MaxSessions
ChainIds == 1..MaxChains
Failings == StepChat..StepNone

Next ==
    \/ \E e \in EmployeeIds, f \in Failings : create_chain(e, f)
    \/ \E a \in Actors, e \in EmployeeIds, f \in Failings : create_chain_route(a, e, f)
    \/ \E a \in Actors, c \in ChainIds : complete_chain_route(a, c)
    \/ \E a \in Actors, c \in ChainIds : escalate_chain_route(a, c)
    \/ \E a \in Actors, c \in ChainIds : cancel_chain_route(a, c)
    \/ \E c \in ChainIds : llm_escalate_chain(c)
    \/ \E a \in Actors, s \in SessionIds : admin_complete_session(a, s)
    \/ \E a \in Actors, s \in SessionIds : admin_activate_session(a, s)
    \/ \E a \in Actors, s \in SessionIds : complete_session_route(a, s)
    \/ \E a \in Actors, s \in SessionIds : activate_session_route(a, s)
    \/ \E a \in Actors, s \in SessionIds : mark_session_pending(a, s)
    \/ \E a \in Actors, e \in EmployeeIds : create_session(a, e)
    \/ \E a \in Actors, e \in EmployeeIds : create_session_hr(a, e)
    \/ \E e \in Employees, c \in ChainIds \cup {None} : llm_create_session(e, c)
    \/ \E c \in ChatIds : message_to_employee(c)
    \/ \E c \in ChatIds : receive_message(c)
    \/ \E e \in Employees, c \in ChatIds, l \in LLMReplies, m \in BOOLEAN :
          send_message(e, c, l, m)
    \/ \E e \in Employees, c \in ChatIds, st \in BOOLEAN : initiate_chat(e, c, st)
    \/ \E e \in Employees, c \in ChatIds, x \in Contexts \cup {""} : end_session(e, c, x)
    \/ \E e \in Employees, c \in ChatIds, ch \in ChainIds : employee_end_session(e, c, ch)

\* The handlers one at a time, the manager assignment and the clock fixed.
Spec == Init /\ [][Next]_vars

\* HR reassignment and the handlers that write a chain or a meeting, or a
\* session or chat of a chain, one at a time; chains are created by the HR
\* route, whose saga does not fail here.
NextHR ==
    \/ \E e \in Employees, h \in HRs : reassign_hr(e, h)
    \/ \E a \in Actors, e \in EmployeeIds : create_chain_route(a, e, StepNone)
    \/ \E a \in Actors, c \in ChainIds : complete_chain_route(a, c)
    \/ \E a \in Actors, s \in SessionIds : complete_session_route(a, s)
    \/ \E a \in Actors, s \in SessionIds : activate_session_route(a, s)
    \/ \E a \in Actors, s \in SessionIds : mark_session_pending(a, s)
    \/ \E e \in Employees, c \in ChatIds, l \in LLMReplies, m \in BOOLEAN :
          send_message(e, c, l, m)
    \/ \E e \in Employees, c \in ChatIds, st \in BOOLEAN : initiate_chat(e, c, st)
    \/ \E e \in Employees, c \in ChatIds, x \in Contexts \cup {""} : end_session(e, c, x)

SpecHR == Init /\ [][NextHR]_vars

\* The conversation of an employee: the handlers of routes/llm_chat.py and
\* the end-session route of routes/employee.py, with the creation and the
\* completion of chains and the admin's reset of a session to PENDING.
NextChat ==
    \/ \E e \in Employees : create_chain(e, StepNone)
    \/ \E e \in Employees, c \in ChatIds, st \in BOOLEAN : initiate_chat(e, c, st)
    \/ \E e \in Employees, c \in ChatIds, l \in LLMReplies, m \in BOOLEAN :
          send_message(e, c, l, m)
    \/ \E e \in Employees, c \in ChatIds, x \in Contexts \cup {""} : end_session(e, c, x)
    \/ \E e \in Employees, c \in ChatIds, ch \in ChainIds : employee_end_session(e, c, ch)
    \/ \E c \in ChainIds : complete_chain_route(Admin, c)
    \/ \E s \in SessionIds : mark_session_pending(Admin, s)

SpecChat == Init /\ [][NextChat]_vars

----------------------------------------------------------------------------
\* Interleaved handlers.  A handler that has loaded its documents and passed
\* its checks occupies a slot with the copies it loaded; other handlers run
\* before it goes on and writes from those copies.

\* create_chain up to the existence check (utils/chain_creation.py).
begin_create_chain(slot, emp) ==
    /\ inflight[slot] = Idle
    /\ CreateChainCheck(chains, emp) = 0
    /\ inflight' = [inflight EXCEPT ![slot] =
                       [op |-> "create_chain", emp |-> emp, route |-> FALSE]]
    /\ UNCHANGED <<store, nextChain, manager, resp, clock, outbox, job, proposal, deletes>>

\* POST /chains/create up to the existence check (routes/admin.py).
begin_create_chain_route(slot, actor, emp) ==
    /\ inflight[slot] = Idle
    /\ CreateChainRouteCheck(chains, actor, emp) = 0
    /\ inflight' = [inflight EXCEPT ![slot] =
                       [op |-> "create_chain", emp |-> emp, route |-> TRUE]]
    /\ UNCHANGED <<store, nextChain, manager, resp, clock, outbox, job, proposal, deletes>>

\* The saga of either create_chain, after the check.
finish_create_chain(slot, failing) ==
    /\ inflight[slot].op = "create_chain"
    /\ inflight[slot].route => failing # StepEmail
    /\ HasRoom
    /\ LET r == CreateChainSaga(World, inflight[slot].emp, failing)
       IN  ReturnAfter(r.w, r.code, r.deletes)
    /\ inflight' = [inflight EXCEPT ![slot] = Idle]
    /\ UNCHANGED <<manager, clock, outbox, job, proposal>>

\* POST /message up to the last check: chat, session and chain are loaded.
begin_send_message(slot, emp, chat) ==
    /\ inflight[slot] = Idle
    /\ SendMessageCheck(World, emp, chat) = 0
    /\ InWindow(chats[chat].nonbot)
    /\ inflight' = [inflight EXCEPT ![slot] =
                       [op |-> "send_message_loaded", L |-> Loaded(World, chat)]]
    /\ UNCHANGED <<store, nextChain, manager, resp, clock, outbox, job, proposal, deletes>>

\* POST /message: chat.add_message(EMPLOYEE, ...) on the loaded chat.
receive_send_message(slot) ==
    /\ inflight[slot].op = "send_message_loaded"
    /\ LET r == SendMessageReceive(World, inflight[slot].L)
       IN  /\ chats' = r.w.chats
           /\ inflight' = [inflight EXCEPT ![slot] = [op |-> "send_message", L |-> r.L]]
    /\ UNCHANGED <<sessions, chains, meets, notifications, nextChain, manager,
                   resp, clock, outbox, job, proposal, deletes>>

\* POST /message from the reply of the chat backend on.
finish_send_message(slot, llm, mail) ==
    /\ inflight[slot].op = "send_message"
    /\ mail \/ llm \in {"escalate", "both"}
    /\ llm \in {"escalate", "both"} => Cardinality(DOMAIN meets) < MaxMeets
    /\ LET r == SendMessageReply(World, inflight[slot].L, llm, mail)
       IN  Return(r.w, r.code)
    /\ inflight' = [inflight EXCEPT ![slot] = Idle]
    /\ UNCHANGED <<manager, clock, outbox, job, proposal>>

\* POST /end-session up to the message count.
begin_end_session(slot, emp, chat) ==
    /\ inflight[slot] = Idle
    /\ EndSessionCheck(World, emp, chat) = 0
    /\ inflight' = [inflight EXCEPT ![slot] =
                       [op |-> "end_session", emp |-> emp, L |-> Loaded(World, chat)]]
    /\ UNCHANGED <<store, nextChain, manager, resp, clock, outbox, job, proposal, deletes>>

\* POST /end-session from the reply of the chat backend on.
finish_end_session(slot, ctx) ==
    /\ inflight[slot].op = "end_session"
    /\ CanEndSession
    /\ LET r == EndSessionCommit(World, inflight[slot].L, inflight[slot].emp, ctx)
       IN  Return(r.w, r.code)
    /\ inflight' = [inflight EXCEPT ![slot] = Idle]
    /\ UNCHANGED <<manager, clock, outbox, job, proposal>>

\* PATCH /initiate-chat, a call that passes its checks and gets its reply.
accepted_initiate_chat(emp, chat) ==
    /\ InitiateCheck(World, emp, chat, clock) = 0
    /\ initiate_chat(emp, chat, TRUE)

NextRace ==
    \/ \E s \in Slots, e \in Employees : begin_create_chain(s, e)
    \/ \E s \in Slots, a \in Actors, e \in Employees : begin_create_chain_route(s, a, e)
    \/ \E s \in Slots, f \in Failings : finish_create_chain(s, f)
    \/ \E s \in Slots, e \in Employees, c \in ChatIds : begin_send_message(s, e, c)
    \/ \E s \in Slots : receive_send_message(s)
    \/ \E s \in Slots, l \in LLMReplies, m \in BOOLEAN : finish_send_message(s, l, m)
    \/ \E s \in Slots, e \in Employees, c \in ChatIds : begin_end_session(s, e, c)
    \/ \E s \in Slots, x \in Contexts \cup {""} : finish_end_session(s, x)
    \/ \E a \in Actors, c \in ChainIds : complete_chain_route(a, c)
    \/ \E e \in Employees, c \in ChatIds : accepted_initiate_chat(e, c)

SpecRace == Init /\ [][NextRace]_vars

----------------------------------------------------------------------------
\* utils/scheduler.py run_deadline_check at time `now`.
\* aware: the datetimes loaded from the database carry a timezone (the
\* tz_aware option of the DATABASE_URL); when they do not, comparing
\* session.scheduled_at with datetime.now(timezone.utc) raises TypeError.
\* mailok: the SMTP server accepts the emails.
\* A run yields ok (FALSE: it raised), the documents it wrote and the
\* deadline emails it sent, in order.
DeadlineReason == "deadline"
Reminder(emp) == [kind |-> "reminder", to |-> emp]
FinalNotice(emp) == [kind |-> "over", to |-> emp]

\* Session.find({status: PENDING, scheduled_at: {$lte: now}}).to_list()
PendingDue(sess, now) ==
    SortedSeq({s \in DOMAIN sess :
                  sess[s].status = "pending" /\ sess[s].scheduled_at <= now})

\* Session.find({status: ACTIVE}).to_list()
ActiveSessions(sess) == SortedSeq({s \in DOMAIN sess : sess[s].status = "active"})

\* The escalation of the chain that lists session sid, if there is one.
EscalateOwner(r, sid, mailok) ==
    LET cid == ChainOfSession(r.w.chains, sid)
    IN  IF cid = None THEN r
        ELSE LET e == EscalateChain(r.w, cid, r.w.chains[cid], DeadlineReason, mailok)
             IN  [r EXCEPT !.ok = e.ok, !.w = e.w]

\* The loop over the pending sessions; `loaded` are the sessions as the
\* query returned them.  The second branch tests a condition that implies
\* the first one.
RECURSIVE DeadlinePending(_, _, _, _, _, _)
DeadlinePending(ids, loaded, r, now, aware, mailok) ==
    IF ids = <<>> \/ ~r.ok THEN r
    ELSE LET session == loaded[Head(ids)]
             rest == Tail(ids)
         IN  IF ~aware THEN [r EXCEPT !.ok = FALSE]
             ELSE IF session.scheduled_at < now - Day
             THEN IF mailok
                  THEN DeadlinePending(rest, loaded,
                           [r EXCEPT !.mails = Append(@, Reminder(session.user_id))],
                           now, aware, mailok)
                  ELSE [r EXCEPT !.ok = FALSE]
             ELSE IF session.scheduled_at < now - 2 * Day
             THEN IF mailok
                  THEN DeadlinePending(rest, loaded,
                           EscalateOwner(
                               [r EXCEPT !.mails = Append(@, FinalNotice(session.user_id))],
                               Head(ids), mailok),
                           now, aware, mailok)
                  ELSE [r EXCEPT !.ok = FALSE]
             ELSE DeadlinePending(rest, loaded, r, now, aware, mailok)

\* The loop over the active sessions.  chats[-1].messages[-1] of a chat
\* without messages raises IndexError.
RECURSIVE DeadlineActive(_, _, _, _, _, _)
DeadlineActive(ids, loaded, r, now, aware, mailok) ==
    IF ids = <<>> \/ ~r.ok THEN r
    ELSE LET session == loaded[Head(ids)]
             rest == Tail(ids)
         IN  IF ~aware THEN [r EXCEPT !.ok = FALSE]
             ELSE IF session.scheduled_at < now - Day
             THEN IF mailok
                  THEN DeadlineActive(rest, loaded,
                           [r EXCEPT !.mails = Append(@, Reminder(session.user_id))],
                           now, aware, mailok)
                  ELSE [r EXCEPT !.ok = FALSE]
             ELSE IF session.scheduled_at < now - 2 * Day
             THEN DeadlineActive(rest, loaded, r, now, aware, mailok)
             ELSE IF \/ session.chat_id \notin DOMAIN r.w.chats
                     \/ r.w.chats[session.chat_id].last = NoMessage
             THEN [r EXCEPT !.ok = FALSE]
             ELSE IF r.w.chats[session.chat_id].last_at
                        > session.scheduled_at + 2 * Day - Hour
             THEN DeadlineActive(rest, loaded, r, now, aware, mailok)
             ELSE DeadlineActive(rest, loaded, EscalateOwner(r, Head(ids), mailok),
                                 now, aware, mailok)

DeadlineCheck(w, now, aware, mailok) ==
    LET p == DeadlinePending(PendingDue(w.sessions, now), w.sessions,
                             [ok |-> TRUE, w |-> w, mails |-> <<>>],
                             now, aware, mailok)
    IN  IF ~p.ok THEN p
        ELSE DeadlineActive(ActiveSessions(p.w.sessions), p.w.sessions, p,
                            now, aware, mailok)

\* One run of the job.  outbox holds the deadline emails of the last run.
run_deadline_check(aware, mailok) ==
    LET r == DeadlineCheck(World, clock, aware, mailok)
    IN  /\ Cardinality(DOMAIN r.w.meets) <= MaxMeets
        /\ chats' = r.w.chats
        /\ sessions' = r.w.sessions
        /\ chains' = r.w.chains
        /\ meets' = r.w.meets
        /\ notifications' = r.w.notifications
        /\ outbox' = r.mails
        /\ UNCHANGED <<nextChain, manager, inflight, resp, clock, job, proposal,
                       deletes>>

\* An hour passes.
Tick ==
    /\ clock < MaxClock
    /\ clock' = clock + 1
    /\ UNCHANGED <<store, nextChain, manager, inflight, resp, outbox, job, proposal, deletes>>

\* The deadline job with the handlers that bring a session to PENDING or
\* ACTIVE and stamp the messages of its chat, while the clock runs.
NextDeadline ==
    \/ Tick
    \/ \E a \in BOOLEAN, m \in BOOLEAN : run_deadline_check(a, m)
    \/ \E e \in Employees : create_chain(e, StepNone)
    \/ \E e \in Employees, c \in ChatIds, st \in BOOLEAN : initiate_chat(e, c, st)
    \/ \E e \in Employees, c \in ChatIds : send_message(e, c, "plain", TRUE)
    \/ \E s \in SessionIds : activate_session_route(Admin, s)

SpecDeadline == Init /\ [][NextDeadline]_vars

\* A chain escalated on the chain document as it is persisted now.
EscalateChainReloaded(w, cid, self, reason, mail) ==
    IF w.chains[cid].status # "active"
    THEN [ok |-> FALSE, w |-> w, self |-> w.chains[cid]]
    ELSE [ok |-> TRUE, self |-> [w.chains[cid] EXCEPT !.status = "escalated"],
          w |-> [w EXCEPT !.chains[cid].status = "escalated"]]

\* chain.escalate_chain(reason) on the chain document that the job loaded.
EscalateLoaded(w, cid, self, reason, mail) == EscalateChain(w, cid, self, reason, mail)

\* The job of a run whose first ACTIVE session is to be escalated, up to
\* the first await of chain.escalate_chain: the pending loop has sent its
\* emails, the job holds the sessions of its two queries and the chain that
\* Chain.find_one returned, and the test of the chain's status is behind it.
begin_deadline_check(slot) ==
    LET ids == ActiveSessions(sessions)
        sid == Head(ids)
        session == sessions[sid]
        cid == ChainOfSession(chains, sid)
        p == DeadlinePending(PendingDue(sessions, clock), sessions,
                             [ok |-> TRUE, w |-> World, mails |-> <<>>],
                             clock, TRUE, TRUE)
    IN  /\ inflight[slot] = Idle
        /\ ids # <<>>
        /\ ~(session.scheduled_at < clock - Day)
        /\ session.chat_id \in DOMAIN chats
        /\ chats[session.chat_id].last # NoMessage
        /\ ~(chats[session.chat_id].last_at > session.scheduled_at + 2 * Day - Hour)
        /\ cid # None
        /\ chains[cid].status = "active"
        /\ inflight' = [inflight EXCEPT ![slot] =
                           [op |-> "deadline_check", cid |-> cid, self |-> chains[cid],
                            rest |-> Tail(ids), loaded |-> sessions, mails |-> p.mails]]
        /\ UNCHANGED <<store, nextChain, manager, resp, clock, outbox, job, proposal,
                       deletes>>

\* The rest of that run: escalate_chain from its first await on, then the
\* remaining ACTIVE sessions of the query.
finish_deadline_check(slot, mailok) ==
    /\ inflight[slot].op = "deadline_check"
    /\ Cardinality(DOMAIN meets) < MaxMeets
    /\ LET f == inflight[slot]
           e == EscalateLoaded(World, f.cid, f.self, DeadlineReason, mailok)
           r == DeadlineActive(f.rest, f.loaded,
                               [ok |-> e.ok, w |-> e.w, mails |-> f.mails],
                               clock, TRUE, mailok)
       IN  /\ chats' = r.w.chats
           /\ sessions' = r.w.sessions
           /\ chains' = r.w.chains
           /\ meets' = r.w.meets
           /\ notifications' = r.w.notifications
           /\ outbox' = r.mails
    /\ inflight' = [inflight EXCEPT ![slot] = Idle]
    /\ UNCHANGED <<nextChain, manager, resp, clock, job, proposal, deletes>>

\* The deadline job interleaved with the conversation handlers.
NextClobber ==
    \/ \E s \in Slots : begin_deadline_check(s)
    \/ \E s \in Slots, m \in BOOLEAN : finish_deadline_check(s, m)
    \/ \E s \in Slots, e \in Employees, c \in ChatIds : begin_send_message(s, e, c)
    \/ \E s \in Slots : receive_send_message(s)
    \/ \E s \in Slots, l \in LLMReplies, m \in BOOLEAN : finish_send_message(s, l, m)
    \/ \E e \in Employees : create_chain_route(Admin, e, StepNone)
    \/ \E e \in Employees, c \in ChatIds : accepted_initiate_chat(e, c)

SpecClobber == Init /\ [][NextClobber]_vars

----------------------------------------------------------------------------
\* utils/scheduler.py run_employee_selection.  The job reads the store at
\* `now`; `nominated` is the list that select_employees returns and `aware`
\* says whether the stored datetimes are read back timezone-aware.
CooldownDays == 14
JobDone == "done"
JobRaised == "raised"

\* Chain.find_one({"employee_id": ...}): the first chain of the employee in
\* the order of insertion.
FirstChainOf(chs, emp) ==
    LET mine == {c \in DOMAIN chs : chs[c].employee_id = emp}
    IN  IF mine = {} THEN None ELSE Min(mine)

\* await create_chain(employee_id=..., notes=..., scheduled_time=...): the
\* function takes one parameter, `request`, so the call raises TypeError
\* before the body runs.
SelectionCreate(w, emp, now) == [ok |-> FALSE, w |-> w]

\* A loop body that opens a chain for every nominated employee.
SelectEmployeeUnguarded(w, emp, now, aware) ==
    [ok |-> TRUE, skipped |-> FALSE, w |-> SagaCreate(w, emp, StepNone)]

\* The body of the loop for one nominated employee.  skipped: `continue`.
SelectEmployee(w, emp, now, aware) ==
    LET cid == FirstChainOf(w.chains, emp)
        ids == w.chains[cid].session_ids
        last == ids[Len(ids)]
        raised == [ok |-> FALSE, skipped |-> FALSE, w |-> w]
    IN  IF ActiveChainsOf(w.chains, emp) # {}
        THEN [ok |-> TRUE, skipped |-> TRUE, w |-> w]
        ELSE IF cid = None THEN raised            \* None.session_ids
        ELSE IF ids = <<>> THEN raised            \* session_ids[-1]
        ELSE IF last \notin DOMAIN w.sessions THEN raised   \* None.created_at
        ELSE IF ~aware THEN raised                \* naive > aware
        ELSE IF w.sessions[last].created_at > now - CooldownDays * Day
        THEN [ok |-> TRUE, skipped |-> TRUE, w |-> w]
        ELSE LET r == SelectionCreate(w, emp, now)
             IN  [ok |-> r.ok, skipped |-> FALSE, w |-> r.w]

\* The loop over the nominated employees; the first exception ends the job.
RECURSIVE SelectEmployees(_, _, _, _)
SelectEmployees(w, nominated, now, aware) ==
    IF nominated = <<>> THEN [ok |-> TRUE, w |-> w]
    ELSE LET r == SelectEmployee(w, Head(nominated), now, aware)
         IN  IF ~r.ok THEN [ok |-> FALSE, w |-> r.w]
             ELSE SelectEmployees(r.w, Tail(nominated), now, aware)

\* The lists of distinct employees that select_employees can return.
Nominations ==
    {<<>>} \cup {<<e>> : e \in Employees}
           \cup {<<e, f>> : <<e, f>> \in {p \in Employees \X Employees : p[1] # p[2]}}

\* One run of the job: its writes are persisted and the exception, if any,
\* is logged and raised again.
run_employee_selection(nominated, aware) ==
    LET r == SelectEmployees(World, nominated, clock, aware)
    IN  /\ chats' = r.w.chats
        /\ sessions' = r.w.sessions
        /\ chains' = r.w.chains
        /\ meets' = r.w.meets
        /\ notifications' = r.w.notifications
        /\ nextChain' = r.w.nextChain
        /\ job' = [nominated |-> nominated, end |-> IF r.ok THEN JobDone ELSE JobRaised]
        /\ UNCHANGED <<manager, inflight, resp, clock, outbox, proposal, deletes>>

\* The cooldown period passes.
Fortnight ==
    /\ clock + CooldownDays * Day <= MaxClockSelection
    /\ clock' = clock + CooldownDays * Day
    /\ UNCHANGED <<store, nextChain, manager, inflight, resp, outbox, job,
                   proposal, deletes>>

\* The selection job with the handlers that open and close chains.
NextSelection ==
    \/ Fortnight
    \/ \E n \in Nominations, a \in BOOLEAN : run_employee_selection(n, a)
    \/ \E a \in Actors, e \in Employees : create_chain_route(a, e, StepNone)
    \/ \E e \in Employees, c \in ChatIds : initiate_chat(e, c, TRUE)
    \/ \E c \in ChainIds : complete_chain_route(Admin, c)
    \/ \E e \in Employees, c \in ChatIds : send_message(e, c, "escalate", TRUE)

SpecSelection == Init /\ [][NextSelection]_vars

----------------------------------------------------------------------------
\* utils/scheduler.py clear_notifications, the daily cleanup job.
RetentionDays == 10
MaxClockCleanup == 23

\* A query that takes the notifications of exactly ten days ago as young.
ExpiredNotificationsStrict(ns, now) ==
    {n \in DOMAIN ns : ns[n].created_at < now - RetentionDays * Day}

\* Notification.find({"created_at": {"$lte": now - timedelta(days=10)}})
ExpiredNotifications(ns, now) ==
    {n \in DOMAIN ns : ns[n].created_at <= now - RetentionDays * Day}

\* The job: delete() on every notification the query returned.
clear_notifications ==
    /\ notifications' = [n \in DOMAIN notifications \
                                ExpiredNotifications(notifications, clock) |->
                            notifications[n]]
    /\ UNCHANGED <<chats, sessions, chains, meets, nextChain, manager, inflight,
                   resp, clock, outbox, job, proposal, deletes>>

\* Time passes between the requests and the runs of the job.
Elapse(hours) ==
    /\ clock + hours <= MaxClockCleanup
    /\ clock' = clock + hours
    /\ UNCHANGED <<store, nextChain, manager, inflight, resp, outbox, job,
                   proposal, deletes>>

\* The cleanup job with the handlers that create notifications and the
\* other documents it must leave alone.
NextCleanup ==
    \/ \E h \in {Hour, 5 * Day} : Elapse(h)
    \/ clear_notifications
    \/ \E a \in Actors, e \in Employees : create_chain_route(a, e, StepNone)
    \/ \E e \in Employees, c \in ChatIds : initiate_chat(e, c, TRUE)
    \/ \E e \in Employees, c \in ChatIds : send_message(e, c, "escalate", TRUE)

SpecCleanup == Init /\ [][NextCleanup]_vars

----------------------------------------------------------------------------
\* Slot finding: routes/chat.py assignTimeCalendar and the same computation
\* inside routes/llm.py escalate_chat.  Times and durations are minutes.  A
\* meeting is [scheduled_at, duration_minutes]; the list of existing meetings
\* is what the caller read from the meets collection, in any order.
MaxExisting == 2
MaxSlotTime == 4
MaxSlotDuration == 3
SlotTimes == 0..MaxSlotTime
SlotDurations == 1..MaxSlotDuration
SlotMeetings == [scheduled_at : SlotTimes, duration_minutes : SlotDurations]
Calendars == UNION {[1..n -> SlotMeetings] : n \in 0..MaxExisting}

MeetingEnd(m) == m.scheduled_at + m.duration_minutes
Max(a, b) == IF a >= b THEN a ELSE b

\* sorted(existing_meetings, key=lambda m: m.scheduled_at): stable.
RECURSIVE InsertByStart(_, _)
InsertByStart(sorted, m) ==
    IF sorted = <<>> THEN <<m>>
    ELSE IF sorted[Len(sorted)].scheduled_at <= m.scheduled_at
    THEN Append(sorted, m)
    ELSE Append(InsertByStart(SubSeq(sorted, 1, Len(sorted) - 1), m),
                sorted[Len(sorted)])

RECURSIVE SortedMeetings(_)
SortedMeetings(ms) ==
    IF ms = <<>> THEN <<>>
    ELSE InsertByStart(SortedMeetings(SubSeq(ms, 1, Len(ms) - 1)), ms[Len(ms)])

\* The loop over adjacent meetings from index i on: the end of the first
\* meeting that ends at or after `earliest` and leaves a gap of `duration`
\* before the next one; None when the loop finds no such pair.
RECURSIVE GapFrom(_, _, _, _)
GapFrom(sorted, i, earliest, duration) ==
    IF i > Len(sorted) - 1 THEN [found |-> FALSE, at |-> 0]
    ELSE IF /\ MeetingEnd(sorted[i]) >= earliest
            /\ sorted[i + 1].scheduled_at - MeetingEnd(sorted[i]) >= duration
    THEN [found |-> TRUE, at |-> Max(MeetingEnd(sorted[i]), earliest)]
    ELSE GapFrom(sorted, i + 1, earliest, duration)

\* The greedy search, from `if not existing_meetings` to the last return.
ProposedTime(existing_meetings, earliest, duration) ==
    LET sorted == SortedMeetings(existing_meetings)
        gap == GapFrom(sorted, 1, earliest, duration)
    IN  IF sorted = <<>> THEN earliest
        ELSE IF sorted[1].scheduled_at - earliest >= duration THEN earliest
        ELSE IF gap.found THEN gap.at
        ELSE Max(MeetingEnd(sorted[Len(sorted)]), earliest)

\* The call that slot finding is about to answer: the list of existing
\* meetings, the requested duration and the reading of the clock.
SlotCalls ==
    {[NoProposal EXCEPT !.meetings = ms, !.duration = d, !.now = now] :
        ms \in Calendars, d \in SlotDurations, now \in SlotTimes}

Pending(call) == call.by = "none" /\ call.duration > 0

\* routes/chat.py assignTimeCalendar.  The module imports the class
\* (`from datetime import timedelta, datetime`), so the first statement,
\* datetime.datetime.now(), raises AttributeError on every call.
assignTimeCalendar ==
    /\ Pending(proposal)
    /\ proposal' = [proposal EXCEPT !.by = "assignTimeCalendar", !.raised = TRUE]
    /\ UNCHANGED <<store, nextChain, manager, inflight, resp, clock, outbox, job,
                   deletes>>

\* routes/llm.py escalate_chat for a chat whose session and employee exist:
\* proposal.meetings is the answer of Meet.find, proposal.duration the
\* requested timeDuartion; proposal describes the Meet that the handler saves.
escalate_chat ==
    /\ Pending(proposal)
    /\ proposal' = [proposal EXCEPT
                      !.by = "escalate_chat",
                      !.proposed = ProposedTime(proposal.meetings, proposal.now,
                                                proposal.duration)]
    /\ UNCHANGED <<store, nextChain, manager, inflight, resp, clock, outbox, job,
                   deletes>>

InitSlots ==
    /\ clock = ClockStart
    /\ InitEmpty
    /\ InitRest
    /\ proposal \in SlotCalls

NextSlots == assignTimeCalendar \/ escalate_chat

SpecSlots == InitSlots /\ [][NextSlots]_vars

----------------------------------------------------------------------------
\* models/meet.py: the methods of Meet that write its status.  A method that
\* raises ValueError has written nothing.
SetMeetStatus(mid, status) ==
    /\ meets' = [meets EXCEPT ![mid].status = status]
    /\ UNCHANGED <<chats, sessions, chains, notifications, nextChain, manager,
                   inflight, resp, clock, outbox, job, proposal, deletes>>

initiate_meeting(mid) ==
    /\ mid \in DOMAIN meets
    /\ SetMeetStatus(mid, "SCHEDULED")

start_meeting(mid) ==
    /\ mid \in DOMAIN meets
    /\ IF meets[mid].status # "SCHEDULED" THEN UNCHANGED vars
       ELSE SetMeetStatus(mid, "IN_PROGRESS")

complete_meeting(mid) ==
    /\ mid \in DOMAIN meets
    /\ IF meets[mid].status # "IN_PROGRESS" THEN UNCHANGED vars
       ELSE SetMeetStatus(mid, "COMPLETED")

mark_as_no_show(mid) ==
    /\ mid \in DOMAIN meets
    /\ IF meets[mid].status # "SCHEDULED" THEN UNCHANGED vars
       ELSE SetMeetStatus(mid, "NO_SHOW")

cancel_meeting(mid) ==
    /\ mid \in DOMAIN meets
    /\ IF meets[mid].status \notin {"SCHEDULED", "IN_PROGRESS"} THEN UNCHANGED vars
       ELSE SetMeetStatus(mid, "CANCELLED")

MeetIds == 1..MaxMeets

\* The meetings of escalated chains: the handlers that lead to an escalation
\* and the methods of Meet.
NextMeet ==
    \/ \E e \in Employees : create_chain_route(Admin, e, StepNone)
    \/ \E e \in Employees, c \in ChatIds : initiate_chat(e, c, TRUE)
    \/ \E e \in Employees, c \in ChatIds : send_message(e, c, "escalate", TRUE)
    \/ \E m \in MeetIds : initiate_meeting(m)
    \/ \E m \in MeetIds : start_meeting(m)
    \/ \E m \in MeetIds : complete_meeting(m)
    \/ \E m \in MeetIds : mark_as_no_show(m)
    \/ \E m \in MeetIds : cancel_meeting(m)

SpecMeet == Init /\ [][NextMeet]_vars

----------------------------------------------------------------------------
\* Properties.
TerminalSessionStatus == {"completed", "cancelled"}

\* The meeting of hr with emp, as the properties expect it.
NewMeetRecord(hr, emp, notes) ==
    [user_id |-> hr, with_user_id |-> emp, notes |-> notes,
     scheduled_at |-> MeetingTime(clock),
     duration_minutes |-> EscalationMeetingMinutes, status |-> "SCHEDULED"]

\* C1: every employee has at most one ACTIVE chain in every reachable state,
\* also when create_chain calls interleave between check and save.
C1_OneActiveChain ==
    \A e \in Employees : Cardinality(ActiveChainsOf(chains, e)) <= 1

\* C2: a session's status changes only along PENDING->ACTIVE,
\* ACTIVE->COMPLETED, PENDING->CANCELLED and ACTIVE->CANCELLED.
AllowedSessionStep ==
    {<<"pending", "active">>, <<"active", "completed">>,
     <<"pending", "cancelled">>, <<"active", "cancelled">>}

C2_SessionTransitions ==
    [][\A s \in DOMAIN sessions :
          s \in DOMAIN sessions' =>
             \/ sessions'[s].status = sessions[s].status
             \/ <<sessions[s].status, sessions'[s].status>> \in AllowedSessionStep]_vars

\* C3: a chain persisted as COMPLETED or CANCELLED keeps that status in
\* every step.
C3_TerminalChainKeepsStatus ==
    [][\A c \in DOMAIN chains :
          chains[c].status \in {"completed", "cancelled"} =>
             c \in DOMAIN chains' /\ chains'[c].status = chains[c].status]_vars

\* C4: when send_message applies escalate_chain to an ACTIVE chain, every
\* session the chain lists is COMPLETED afterwards, or was terminal before
\* and kept its status.
C4_EscalateCompletesSessions ==
    [][\A e \in Employees, c \in DOMAIN chats, m \in BOOLEAN :
          (/\ chats'[c] # chats[c]
           /\ SendMessageCheck(World, e, c) = 0
           /\ send_message(e, c, "escalate", m)) =>
             LET L == Loaded(World, c)
             IN  \A s \in SeqToSet(L.chain.session_ids) \cup
                           SeqToSet(chains'[L.cid].session_ids) :
                    s \in DOMAIN sessions' =>
                       \/ sessions'[s].status = "completed"
                       \/ /\ sessions[s].status \in TerminalSessionStatus
                          /\ sessions'[s].status = sessions[s].status]_vars

\* A chain of two sessions has been escalated.
C4_Witness ==
    \E c \in DOMAIN chains :
        /\ chains[c].status = "escalated"
        /\ Len(chains[c].session_ids) >= 2
        /\ \A s \in SeqToSet(chains[c].session_ids) : sessions[s].status = "completed"

\* C5: complete_chain on an ACTIVE chain persists the chain as COMPLETED
\* whatever the statuses of its sessions.
C5_CompleteChainSucceeds ==
    [][\A a \in Actors, c \in ChainIds :
          (/\ c \in DOMAIN chains
           /\ chains[c].status = "active"
           /\ ~NotAssigned(a, chains[c].employee_id)
           /\ complete_chain_route(a, c)) =>
             chains'[c].status = "completed"]_vars

C7_CancelChainCancels ==
    [][\A a \in Actors, c \in DOMAIN chains :
          (/\ chains[c].status \in {"active", "escalated"}
           /\ ~NotAssigned(a, chains[c].employee_id)
           /\ cancel_chain_route(a, c)) =>
             chains'[c].status = "cancelled"]_vars

\* C8: the session_ids of a chain persisted as COMPLETED, ESCALATED or
\* CANCELLED do not grow in any step.
C8_TerminalChainNeverGrows ==
    [][\A c \in DOMAIN chains :
          chains[c].status \in {"completed", "escalated", "cancelled"} =>
             /\ c \in DOMAIN chains'
             /\ Len(chains'[c].session_ids) <= Len(chains[c].session_ids)]_vars

\* C9: a create_chain call (utility or HR route) that passes its checks and
\* fails at any step of the saga leaves chats, sessions, chains, meetings
\* and notifications as they were before the call.
C9_FailedCreateChainLeavesStore ==
    [][\A e \in Employees, f \in Failings \ {StepNone} :
          (/\ resp' = 500
           /\ HasRoom
           /\ \/ CreateChainCheck(chains, e) = 0 /\ create_chain(e, f)
              \/ \E a \in Actors :
                    /\ CreateChainRouteCheck(chains, a, e) = 0
                    /\ create_chain_route(a, e, f)) =>
             UNCHANGED store]_vars

\* A chain id has been used by a call that failed after saving its chain,
\* and no chain of that id is in the store.
C9_Witness ==
    /\ resp = 500
    /\ \E c \in 1..(nextChain - 1) : c \notin DOMAIN chains

\* C10: create_chain for an unknown employee answers 404, for an employee
\* with an ACTIVE chain 400, and creates nothing.
C10_CreateChainClientErrors ==
    [][\A e \in EmployeeIds, f \in Failings :
          (CreateChainCheck(chains, e) # 0 /\ create_chain(e, f)) =>
             /\ resp' = IF e \notin Employees THEN 404 ELSE 400
             /\ UNCHANGED store]_vars

\* C11: after a create_chain that succeeds, the chain it returns, fetched by
\* its id, is ACTIVE with the empty context and lists exactly one session,
\* the one created by the call; that session is PENDING and bound to the
\* chat created by the call.
C11_CreateThenFetch ==
    [][\A e \in Employees :
          (/\ resp' = 200
           /\ \/ create_chain(e, StepNone)
              \/ \E a \in Actors : create_chain_route(a, e, StepNone)) =>
             \E c \in DOMAIN chains' \ DOMAIN chains :
                LET got == GetChainById(chains', c)
                IN  /\ DOMAIN chains' \ DOMAIN chains = {c}
                    /\ got.employee_id = e
                    /\ got.status = "active"
                    /\ got.context = ""
                    /\ Len(got.session_ids) = 1
                    /\ got.session_ids[1] \in DOMAIN sessions' \ DOMAIN sessions
                    /\ sessions'[got.session_ids[1]].status = "pending"
                    /\ sessions'[got.session_ids[1]].user_id = e
                    /\ sessions'[got.session_ids[1]].chat_id
                          \in DOMAIN chats' \ DOMAIN chats
                    /\ DOMAIN sessions' \ DOMAIN sessions = {got.session_ids[1]}]_vars

\* A chain as create_chain leaves it: ACTIVE, empty context, one PENDING
\* session on a chat without messages, right after a 200.
C11_Witness ==
    /\ resp = 200
    /\ \E c \in DOMAIN chains :
          /\ GetChainById(chains, c).status = "active"
          /\ GetChainById(chains, c).context = ""
          /\ Len(chains[c].session_ids) = 1
          /\ chains[c].session_ids[1] \in DOMAIN sessions
          /\ sessions[chains[c].session_ids[1]].status = "pending"
          /\ chats[sessions[chains[c].session_ids[1]].chat_id].last = NoMessage

\* C12: initiate on a chat whose session is PENDING is rejected and leaves
\* the session PENDING while the clock is before scheduled_at, and moves the
\* session to ACTIVE from scheduled_at on (the chat backend answering);
\* initiate on a session that is not PENDING is rejected.
C12_InitiateOnlyWhenDue ==
    [][\A e \in Employees, c \in DOMAIN chats :
          (/\ chats[c].user_id = e
           /\ SessionOfChat(sessions, c) # None
           /\ ChainOfSession(chains, SessionOfChat(sessions, c)) # None
           /\ initiate_chat(e, c, TRUE)) =>
             LET sid == SessionOfChat(sessions, c)
             IN  IF sessions[sid].status # "pending"
                 THEN resp' # 200 /\ sessions'[sid] = sessions[sid]
                 ELSE IF clock < sessions[sid].scheduled_at
                 THEN resp' # 200 /\ sessions'[sid].status = "pending"
                 ELSE resp' = 200 /\ sessions'[sid].status = "active"]_vars

\* C13: no chat ever holds two consecutive employee-authored messages, also
\* when send_message calls for the same chat interleave at their awaits.
C13_NoTwoEmployeeMessagesInARow ==
    \A c \in DOMAIN chats : ~chats[c].double

\* Two send_message calls for the same chat are in flight and both have
\* saved their employee message.
C13_Witness ==
    /\ inflight[1].op = "send_message"
    /\ inflight[2].op = "send_message"
    /\ inflight[1].L.chat_id = inflight[2].L.chat_id
    /\ chats[inflight[1].L.chat_id].last = "emp"

\* C14: a send_message call on a chat whose session is not ACTIVE, or whose
\* owning chain is not ACTIVE, is rejected whatever the chat backend would
\* answer, and leaves chat, session and chain (the whole store) unchanged.
C14_SendMessageNeedsActive ==
    [][\/ resp' \in {400, 404} /\ UNCHANGED store
       \/ \A c \in DOMAIN chats :
             LET e == chats[c].user_id
                 sid == SessionOfChat(sessions, c)
                 cid == ChainOfSession(chains, sid)
             IN  (/\ e \in Employees
                  /\ sid # None
                  /\ \/ sessions[sid].status # "active"
                     \/ cid = None
                     \/ chains[cid].status # "active") =>
                    \A l \in LLMReplies, m \in BOOLEAN : ~send_message(e, c, l, m)]_vars

\* A send_message was just rejected with 400 on a chat that holds the bot's
\* message and whose session is no longer ACTIVE.
C14_Witness ==
    /\ resp = 400
    /\ \E c \in DOMAIN chats :
          /\ chats[c].last = "bot"
          /\ SessionOfChat(sessions, c) # None
          /\ sessions[SessionOfChat(sessions, c)].status # "active"

\* C15: a send_message call that passes its checks and gets a reply from
\* the chat backend leaves the chain COMPLETED when the reply carries
\* complete_the_chain, ESCALATED when it carries escalate_the_chain, and in
\* the status it had when the reply carries neither flag (the employee has
\* a manager and the escalation emails are accepted).
C15_ReplyFlagsCloseChain ==
    [][\A c \in DOMAIN chats, l \in {"plain", "complete", "escalate"} :
          LET e == chats[c].user_id
          IN  (/\ e \in Employees
               /\ manager[e] \in HRs
               /\ SendMessageCheck(World, e, c) = 0
               /\ send_message(e, c, l, TRUE)) =>
                 LET cid == ChainOfSession(chains, SessionOfChat(sessions, c))
                 IN  /\ l = "complete" => chains'[cid].status = "completed"
                     /\ l = "escalate" => chains'[cid].status = "escalated"
                     /\ l = "plain" => chains'[cid].status = chains[cid].status]_vars

\* C16: on a chat whose session and chain are ACTIVE, an end-session call
\* (either route, the chat backend returning a context) is rejected and
\* changes nothing while the chat holds fewer than 10 messages of the
\* employee, and is accepted from 10 on.
C16_EndSessionThreshold ==
    [][\A c \in DOMAIN chats :
          LET e == chats[c].user_id
              sid == SessionOfChat(sessions, c)
              cid == ChainOfSession(chains, sid)
              outcome == IF chats[c].nonbot < MinEmployeeMessages
                         THEN resp' # 200 /\ UNCHANGED store
                         ELSE resp' = 200
          IN  (/\ e \in Employees
               /\ sid # None
               /\ cid # None
               /\ sessions[sid].status = "active"
               /\ chains[cid].status = "active") =>
                 /\ \A x \in Contexts : end_session(e, c, x) => outcome
                 /\ employee_end_session(e, c, cid) => outcome]_vars

\* C17: an end_session call that succeeds leaves the chain with the context
\* the chat backend returned, the session of the chat COMPLETED, exactly one
\* new session, PENDING on a new chat without messages, and that session
\* appended to the session_ids of the same chain.
C17_EndSessionAppends ==
    [][\A c \in DOMAIN chats, x \in Contexts :
          (/\ resp' = 200
           /\ EndSessionCheck(World, chats[c].user_id, c) = 0
           /\ end_session(chats[c].user_id, c, x)) =>
             LET sid == SessionOfChat(sessions, c)
                 cid == ChainOfSession(chains, sid)
             IN  /\ chains'[cid].context = x
                 /\ chains'[cid].status = chains[cid].status
                 /\ sessions'[sid].status = "completed"
                 /\ \E n \in DOMAIN sessions' \ DOMAIN sessions :
                       /\ DOMAIN sessions' \ DOMAIN sessions = {n}
                       /\ sessions'[n].status = "pending"
                       /\ sessions'[n].user_id = chats[c].user_id
                       /\ DOMAIN chats' \ DOMAIN chats = {sessions'[n].chat_id}
                       /\ chats'[sessions'[n].chat_id] = NewChat(chats[c].user_id)
                       /\ chains'[cid].session_ids = Append(chains[cid].session_ids, n)
                 /\ \A d \in DOMAIN chains \ {cid} : chains'[d] = chains[d]
                 /\ DOMAIN chains' = DOMAIN chains]_vars

\* A chain after an end_session: the returned context, its first session
\* COMPLETED and a PENDING follow-up session on an empty chat.
C17_Witness ==
    /\ resp = 200
    /\ \E d \in DOMAIN chains :
          /\ chains[d].context \in Contexts
          /\ Len(chains[d].session_ids) = 2
          /\ sessions[chains[d].session_ids[1]].status = "completed"
          /\ sessions[chains[d].session_ids[2]].status = "pending"
          /\ chats[sessions[chains[d].session_ids[2]].chat_id].last = NoMessage

\* C18: a run of the deadline job (the timestamps comparable, the emails
\* accepted) escalates with the deadline reason the ACTIVE chain of every
\* PENDING session that is 2 days or more past its scheduled_at, and sends
\* the final notice to its employee; for a PENDING session more than 1 day
\* but less than 2 days overdue it sends the reminder only and leaves the
\* chain as it is.
C18_DeadlineEscalatesPending ==
    [][run_deadline_check(TRUE, TRUE) =>
          \A s \in DOMAIN sessions :
             LET overdue == clock - sessions[s].scheduled_at
                 emp == sessions[s].user_id
                 cid == ChainOfSession(chains, s)
             IN  (/\ sessions[s].status = "pending"
                  /\ cid # None
                  /\ chains[cid].status = "active"
                  /\ manager[emp] \in HRs) =>
                    /\ overdue >= 2 * Day =>
                          /\ chains'[cid].status = "escalated"
                          /\ chains'[cid].escalation_reason = DeadlineReason
                          /\ FinalNotice(emp) \in SeqToSet(outbox')
                    /\ (overdue > Day /\ overdue < 2 * Day) =>
                          /\ chains'[cid] = chains[cid]
                          /\ Reminder(emp) \in SeqToSet(outbox')
                          /\ FinalNotice(emp) \notin SeqToSet(outbox')]_vars

C20_DeadlineIdempotent ==
    LET first == DeadlineCheck(World, clock, TRUE, TRUE)
        second == DeadlineCheck(first.w, clock, TRUE, TRUE)
    IN  (first.ok /\ Cardinality(DOMAIN first.w.meets) <= MaxMeets) =>
           /\ SeqToSet(second.mails) \cap SeqToSet(first.mails) = {}
           /\ second.w = first.w

\* The most recent chain of an employee (None: the employee has none) and
\* whether the last session of that chain was created within the cooldown.
InCooldown(emp) ==
    LET mine == {c \in DOMAIN chains : chains[c].employee_id = emp}
        cid == IF mine = {} THEN None ELSE CHOOSE c \in mine : \A d \in mine : d <= c
        ids == chains[cid].session_ids
    IN  /\ cid # None
        /\ ids # <<>>
        /\ sessions[ids[Len(ids)]].created_at > clock - CooldownDays * Day

\* C21: after a run of the employee-selection job, every nominated employee
\* who has no ACTIVE chain and is outside the 14-day cooldown (an employee
\* with no chain at all included) has a new ACTIVE chain with one PENDING
\* session.
C21_SelectionOpensChains ==
    [][\A n \in Nominations, a \in BOOLEAN :
          run_employee_selection(n, a) =>
             \A e \in SeqToSet(n) :
                (ActiveChainsOf(chains, e) = {} /\ ~InCooldown(e)) =>
                   \E c \in DOMAIN chains' \ DOMAIN chains :
                      /\ chains'[c].employee_id = e
                      /\ chains'[c].status = "active"
                      /\ Len(chains'[c].session_ids) = 1
                      /\ chains'[c].session_ids[1] \in DOMAIN sessions'
                      /\ sessions'[chains'[c].session_ids[1]].status = "pending"]_vars

C23_SlotNotBeforeNow ==
    proposal.by # "none" =>
       /\ ~proposal.raised => proposal.proposed >= proposal.now
       /\ proposal.meetings = <<>> =>
             ~proposal.raised /\ proposal.proposed = proposal.now

\* The interval [t, t + duration) meets no meeting of the list.
FreeAt(meetings, t, duration) ==
    \A i \in 1..Len(meetings) :
       ~(t < MeetingEnd(meetings[i]) /\ meetings[i].scheduled_at < t + duration)

\* C24: for every list of existing meetings and every duration, the interval
\* [t, t + duration) that starts at the returned time t overlaps no existing
\* meeting [scheduled_at, scheduled_at + duration_minutes).
C24_SlotOverlapsNoMeeting ==
    (proposal.by # "none" /\ ~proposal.raised) =>
       FreeAt(proposal.meetings, proposal.proposed, proposal.duration)

\* C25: the returned time is the earliest conflict-free start: it is not
\* before now and no time t with now <= t < returned time leaves the interval
\* [t, t + duration) free of every existing meeting.
C25_SlotIsEarliest ==
    (proposal.by # "none" /\ ~proposal.raised) =>
       /\ proposal.proposed >= proposal.now
       /\ \A t \in proposal.now..(proposal.proposed - 1) :
             ~FreeAt(proposal.meetings, t, proposal.duration)

C27_MeetTransitions ==
    [][\A m \in DOMAIN meets \cap DOMAIN meets' :
          meets'[m].status # meets[m].status =>
             <<meets[m].status, meets'[m].status>> \in
                {<<"SCHEDULED", "IN_PROGRESS">>, <<"IN_PROGRESS", "COMPLETED">>,
                 <<"SCHEDULED", "NO_SHOW">>, <<"SCHEDULED", "CANCELLED">>,
                 <<"IN_PROGRESS", "CANCELLED">>}]_vars

\* C28: a complete, escalate, cancel or create-chain request of an HR for an
\* employee whose manager is not that HR is answered 403 and changes no
\* chain, session, meeting or notification.
C28_ForeignHRForbidden ==
    [][/\ \A a \in HRs, c \in DOMAIN chains :
             (/\ NotAssigned(a, chains[c].employee_id)
              /\ \/ complete_chain_route(a, c)
                 \/ escalate_chain_route(a, c)
                 \/ cancel_chain_route(a, c)) =>
                resp' = 403 /\ UNCHANGED store
       /\ \A a \in HRs, e \in Employees, f \in Failings :
             (NotAssigned(a, e) /\ create_chain_route(a, e, f)) =>
                resp' = 403 /\ UNCHANGED store]_vars

C30_DeletesInReverseOrder ==
    [][\A emp \in Employees, failing \in StepSession..StepEmail :
          (CreateChainCheck(chains, emp) = 0 /\ create_chain(emp, failing)) =>
              LET created == SelectSeq(<<"chat", "session", "chain", "notification">>,
                                       LAMBDA d : d \in SagaCreated(failing))
              IN  SelectSeq(deletes', LAMBDA d : d \in SagaCreated(failing)) =
                  [i \in 1..Len(created) |-> created[Len(created) + 1 - i]]]_vars

\* The start of the first gap of at least `duration` between adjacent
\* meetings from index i on, no earlier than `earliest`; the end of the last
\* meeting, no earlier than `earliest`, when there is no such gap.
RECURSIVE FirstGapStart(_, _, _, _)
FirstGapStart(sorted, i, earliest, duration) ==
    IF i > Len(sorted) - 1 THEN Max(MeetingEnd(sorted[Len(sorted)]), earliest)
    ELSE IF sorted[i + 1].scheduled_at - MeetingEnd(sorted[i]) >= duration
    THEN Max(MeetingEnd(sorted[i]), earliest)
    ELSE FirstGapStart(sorted, i + 1, earliest, duration)

\* C31: when the gap before the first meeting is shorter than the duration,
\* slot finding returns the start of the first gap between adjacent meetings
\* (sorted by start) that is at least the duration long, clamped to now, and
\* max(end of the last meeting, now) when there is no such gap.
C31_SlotIsFirstGap ==
    (/\ proposal.by # "none"
     /\ proposal.meetings # <<>>
     /\ SortedMeetings(proposal.meetings)[1].scheduled_at - proposal.now <
           proposal.duration) =>
        /\ ~proposal.raised
        /\ proposal.proposed = FirstGapStart(SortedMeetings(proposal.meetings), 1,
                                             proposal.now, proposal.duration)

\* C32: the notification cleanup job deletes every Notification whose
\* created_at is 10 days or more before the run time and leaves every younger
\* Notification and every Chain, Session, Chat and Meeting unchanged; a second
\* run with no time elapsed finds nothing to delete.
C32_CleanupDeletesOldOnly ==
    [][clear_notifications =>
          /\ DOMAIN notifications' \subseteq DOMAIN notifications
          /\ \A n \in DOMAIN notifications :
                IF notifications[n].created_at + RetentionDays * Day <= clock
                THEN n \notin DOMAIN notifications'
                ELSE n \in DOMAIN notifications' /\ notifications'[n] = notifications[n]
          /\ chains' = chains /\ sessions' = sessions
          /\ chats' = chats /\ meets' = meets
          /\ \A n \in DOMAIN notifications' :
                notifications'[n].created_at + RetentionDays * Day > clock']_vars

\* The job has run: an old notification is gone (fewer notifications than
\* chains, and only the job deletes one here), a younger one is left, and a
\* meeting and the sessions are still there.
C32_Witness ==
    /\ Cardinality(DOMAIN notifications) < Cardinality(DOMAIN chains)
    /\ \E n \in DOMAIN notifications :
          notifications[n].created_at + RetentionDays * Day > clock
    /\ \E n \in DOMAIN notifications : notifications[n].created_at > ClockStart
    /\ DOMAIN meets # {}

\* C33: POST /chains/{chain_id}/escalate by the admin or the assigned HR, and
\* POST /escalate-chain, applied to an ACTIVE chain, leave the chain persisted
\* as ESCALATED.
C33_EscalateRoutesEscalate ==
    [][\A actor \in Actors, cid \in DOMAIN chains :
          (/\ chains[cid].status = "active"
           /\ ~NotAssigned(actor, chains[cid].employee_id)
           /\ escalate_chain_route(actor, cid) \/ llm_escalate_chain(cid)) =>
              chains'[cid].status = "escalated"]_vars

\* C34: when escalate_chain raises (no employee, no manager, the meeting is
\* not saved, an escalation email fails), the persisted state is as before
\* the call: no session changed to COMPLETED, no Meeting created, the chain
\* still ACTIVE with no meet_id.
C34_FailedEscalationLeavesStore ==
    [][\A e \in Employees, c \in DOMAIN chats, m \in BOOLEAN :
          (/\ SendMessageCheck(World, e, c) = 0
           /\ send_message(e, c, "escalate", m)
           /\ resp' = 500) =>
              /\ sessions' = sessions
              /\ meets' = meets
              /\ chains' = chains]_vars

\* C35: when the call of the chat backend inside send_message fails, the
\* chat's messages are as before the call, so the next send_message on the
\* same ACTIVE chat passes the previous-message-was-from-employee check.
C35_FailedSendLeavesChat ==
    [][\A e \in Employees, c \in DOMAIN chats :
          (SendMessageCheck(World, e, c) = 0 /\ send_message(e, c, "fail", TRUE)) =>
              /\ chats'[c] = chats[c]
              /\ SendMessageCheck([World EXCEPT !.chats = chats'], e, c) = 0]_vars

\* C36: end_session on a chat whose session is not ACTIVE fails and changes
\* nothing: the chain's context and session_ids, the session's status, and
\* the chats, sessions and notifications are as before the call.
C36_EndSessionNeedsActive ==
    [][\A e \in Employees, c \in DOMAIN chats, x \in Contexts \cup {""} :
          (/\ SessionOfChat(sessions, c) # None
           /\ sessions[SessionOfChat(sessions, c)].status # "active"
           /\ end_session(e, c, x)) =>
              /\ resp' # 200
              /\ chains' = chains
              /\ sessions' = sessions
              /\ chats' = chats
              /\ notifications' = notifications]_vars

\* C37: when initiate fails (report check, report analysis or the external
\* start_session call), the session is still persisted as PENDING and no
\* message has been appended to the chat; an initiate that makes the session
\* ACTIVE also appends the bot's opening message.
C37_FailedInitiateLeavesPending ==
    [][\A e \in Employees, c \in DOMAIN chats, st \in BOOLEAN :
          (InitiateCheck(World, e, c, clock) = 0 /\ initiate_chat(e, c, st)) =>
              LET sid == SessionOfChat(sessions, c)
              IN  /\ resp' # 200 => /\ sessions'[sid].status = "pending"
                                    /\ sessions' = sessions
                                    /\ chats' = chats
                  /\ sessions'[sid].status = "active" =>
                        /\ resp' = 200
                        /\ chats'[c] = AddMessage(chats[c], "bot")
                        /\ chats'[c].last = "bot"]_vars

\* After a failed request a session that passes the checks of initiate is
\* PENDING with an empty chat, while another session is ACTIVE and its chat
\* holds the bot's opening message only.
C37_Witness ==
    /\ resp = 500
    /\ \E s \in DOMAIN sessions :
          /\ sessions[s].status = "pending"
          /\ chats[sessions[s].chat_id].last = NoMessage
          /\ InitiateCheck(World, sessions[s].user_id, sessions[s].chat_id, clock) = 0
    /\ \E s \in DOMAIN sessions :
          /\ sessions[s].status = "active"
          /\ chats[sessions[s].chat_id].last = "bot"
          /\ chats[sessions[s].chat_id].nonbot = 0

\* C38: in every reachable state each Session is listed in the session_ids
\* of exactly one Chain, so the chain lookup by session id finds one chain.
C38_SessionInOneChain ==
    \A s \in DOMAIN sessions : Cardinality(ChainsOfSession(chains, s)) = 1

\* C39: in every reachable state each employee has at most one session
\* whose status is PENDING or ACTIVE.
C39_OneOpenSession ==
    \A e \in Employees :
       Cardinality({s \in DOMAIN sessions :
                       /\ sessions[s].user_id = e
                       /\ sessions[s].status \in {"pending", "active"}}) <= 1

====
